---- MODULE Spec2Model ----
(***************************************************************************)
(* Model of src/index.js: the dashboard login (loginToDashboard), the      *)
(* monitoring loop of main with its dedup set processedCalls, and the      *)
(* per-call notification pipeline (sendInstantNotification, the 20 s       *)
(* timer, processCallWorker).  Node runs the program on one thread, so     *)
(* every action below is one run-to-completion segment of the code: from   *)
(* the completion of an awaited call (or the firing of a timer) up to the  *)
(* next await.                                                             *)
(***************************************************************************)
EXTENDS Integers, Sequences, FiniteSets, TLC

\* ------------------------------------------------------------------ bounds
\* Largest maxRetries argument explored by LoginSpec.
MaxRetriesArg == 3
\* Poll iterations of the monitoring loop that are explored.
MaxTicks == 2
\* Rows in one page snapshot.
MaxRows == 2
\* Longest argument of maskNumber, in characters.
MaxDigits == 9
\* Most words in an argument of extractCountryFromTermination.
MaxTokens == 3

\* ------------------------------------------------------- program constants
\* main calls loginToDashboard({ headless: false, maxRetries: 2 }).
MAIN_MAX_RETRIES == 2
\* setTimeout(..., 20000) before processCallWorker.
AUDIO_DELAY_MS == 20000
\* Pause after every poll iteration.
POLL_PAUSE_MS == 100
\* Pause after an iteration that threw.
ERROR_BACKOFF_MS == 15000

VARIABLES
    maxRetries,      \* loginToDashboard's maxRetries argument
    attempt,         \* loginToDashboard's local `attempt`
    browser,         \* loginToDashboard's local `browser`: 0 is null, else a browser id
    loginPc,         \* where loginToDashboard stands
    launches,        \* calls of puppeteer.launch made so far
    openBrowsers,    \* ids of the browser processes that are open
    session,         \* what loginToDashboard returned: "pending", "none" or "session"
    failures,        \* the step at which each failed attempt threw, oldest first
    mainPc,          \* where main stands
    mainBrowser,     \* main's local `browser`: 0 is null
    processedCalls,  \* main's Set of the call ids already handled
    ticks,           \* poll iterations completed
    now,             \* the clock, in ms since monitoring started
    pollDue,         \* when the loop's pending setTimeout is due
    pipes,           \* one record per launched pipeline, in launch order
    files,           \* names of the files in the script's directory
    refresh,         \* the keep-alive task: "off", "armed" (interval scheduled),
                     \* "reloading", or "failed" (scheduled, the last reload threw)
    skipped,         \* where the pipeline stood of the call the dedup check rejected
                     \* last ("never" before the first rejection)
    arg,             \* the argument of the helper that is called, as its characters
    tokens,          \* the words the argument was written from
    ret              \* what the helper returned (<<"pending">> before it returns)

loginVars == <<maxRetries, attempt, browser, loginPc, launches, openBrowsers, session,
               failures>>
pollVars == <<mainPc, mainBrowser, processedCalls, skipped, ticks, pollDue>>
monitorVars == <<processedCalls, ticks, now, pollDue, pipes, files, refresh, skipped>>
vars == <<maxRetries, attempt, browser, loginPc, launches, openBrowsers, session,
          failures, mainPc, mainBrowser, processedCalls, ticks, now, pollDue, pipes,
          files, refresh, skipped, arg, tokens, ret>>
helperVars == <<arg, tokens, ret>>

\* ---------------------------------------------------------------- helpers
\* A string is the sequence of its characters.
Whitespace == {" "}
Digits == {"0", "1", "2", "3", "4", "5", "6", "7", "8", "9"}
Lower == <<"a", "b", "c", "d", "e", "f", "g", "h", "i", "j", "k", "l", "m",
           "n", "o", "p", "q", "r", "s", "t", "u", "v", "w", "x", "y", "z">>
Upper == <<"A", "B", "C", "D", "E", "F", "G", "H", "I", "J", "K", "L", "M",
           "N", "O", "P", "Q", "R", "S", "T", "U", "V", "W", "X", "Y", "Z">>

\* String.prototype.trim
RECURSIVE TrimStart(_)
TrimStart(str) ==
    IF str # <<>> /\ Head(str) \in Whitespace THEN TrimStart(Tail(str)) ELSE str

RECURSIVE TrimEnd(_)
TrimEnd(str) ==
    IF str # <<>> /\ str[Len(str)] \in Whitespace
    THEN TrimEnd(SubSeq(str, 1, Len(str) - 1))
    ELSE str

Trim(str) == TrimEnd(TrimStart(str))

\* String.prototype.substring(start, end): both indices are clamped to 0..length
\* and swapped when start > end; the characters start..end-1, counted from 0.
Clamp(x, n) == IF x < 0 THEN 0 ELSE IF x > n THEN n ELSE x

Substring(str, start, end) ==
    LET a == Clamp(start, Len(str))
        b == Clamp(end, Len(str))
    IN  IF a <= b THEN SubSeq(str, a + 1, b) ELSE SubSeq(str, b + 1, a)

\* Mutant of maskNumber: strings of 7 characters are masked too.
maskNumberFromSeven(number) ==
    LET numStr == Trim(number)
    IN  IF Len(numStr) >= 7
        THEN Substring(numStr, 0, 3) \o <<"*", "*", "*">>
                 \o Substring(numStr, Len(numStr) - 4, Len(numStr))
        ELSE numStr

\* const maskNumber = (number) => { ... }
maskNumber(number) ==
    LET numStr == Trim(number)
    IN  IF Len(numStr) > 7
        THEN Substring(numStr, 0, 3) \o <<"*", "*", "*">>
                 \o Substring(numStr, Len(numStr) - 4, Len(numStr))
        ELSE numStr

\* text.split(' '): the pieces between the spaces, empty pieces included; the
\* empty string gives one empty piece.
RECURSIVE Split(_)
Split(str) ==
    IF \A k \in 1..Len(str) : str[k] # " "
    THEN <<str>>
    ELSE LET k == CHOOSE j \in 1..Len(str) :
                      str[j] = " " /\ \A h \in 1..(j - 1) : str[h] # " "
         IN  <<SubSeq(str, 1, k - 1)>> \o Split(SubSeq(str, k + 1, Len(str)))

\* parts.join(' ')
RECURSIVE Join(_)
Join(parts) ==
    IF parts = <<>> THEN <<>>
    ELSE IF Len(parts) = 1 THEN parts[1]
    ELSE parts[1] \o <<" ">> \o Join(Tail(parts))

\* String.prototype.toUpperCase, on the letters a..z
ToUpperCase(str) ==
    [k \in 1..Len(str) |->
        IF \E h \in 1..Len(Lower) : Lower[h] = str[k]
        THEN Upper[CHOOSE h \in 1..Len(Lower) : Lower[h] = str[k]]
        ELSE str[k]]

MOBILE == <<"M", "O", "B", "I", "L", "E">>
FIXED == <<"F", "I", "X", "E", "D">>

\* Mutant of IsStop: the part is compared as it is written.
IsStopAsWritten(part) ==
    \/ part \in {MOBILE, FIXED}
    \/ \E k \in 1..Len(part) : part[k] \in Digits

\* ['MOBILE', 'FIXED'].includes(part.toUpperCase()) || /\d/.test(part)
IsStop(part) ==
    \/ ToUpperCase(part) \in {MOBILE, FIXED}
    \/ \E k \in 1..Len(part) : part[k] \in Digits

\* The for loop: the parts before the first one that stops it.
RECURSIVE CountryParts(_)
CountryParts(parts) ==
    IF parts = <<>> \/ IsStop(Head(parts)) THEN <<>>
    ELSE <<Head(parts)>> \o CountryParts(Tail(parts))

\* const extractCountryFromTermination = (text) => { ... }
extractCountryFromTermination(text) ==
    LET countryParts == CountryParts(Split(text))
    IN  IF Len(countryParts) > 0 THEN Join(countryParts) ELSE text

\* A call of maskNumber returns.
CallMaskNumber ==
    /\ ret = <<"pending">>
    /\ tokens = <<>>
    /\ ret' = maskNumber(arg)
    /\ UNCHANGED <<loginVars, mainPc, mainBrowser, monitorVars, arg, tokens>>

\* A call of extractCountryFromTermination returns.
CallExtractCountry ==
    /\ ret = <<"pending">>
    /\ tokens # <<>>
    /\ ret' = extractCountryFromTermination(arg)
    /\ UNCHANGED <<loginVars, mainPc, mainBrowser, monitorVars, arg, tokens>>

\* ------------------------------------------------------------------ login
\* The steps of one login attempt after the launch, in the order of the try
\* block: open the login page, detect and fill the fields, find and click the
\* button, verify the dashboard, open the live-calls page and read the cookies.
LoginSteps == <<"navigate", "detect", "submit", "verify", "liveCalls">>

StepAfter(step) ==
    LET i == CHOOSE j \in 1..Len(LoginSteps) : LoginSteps[j] = step
    IN  IF i = Len(LoginSteps) THEN "return" ELSE LoginSteps[i + 1]

\* The handle of a newly launched browser process: one no open browser has.
FreshBrowser == CHOOSE b \in 1..(Cardinality(openBrowsers) + 1) : b \notin openBrowsers

\* Mutant of Exhausted: the comparison is strict.
ExhaustedStrict(a, n) == a > n

\* if (attempt >= maxRetries) return null;
Exhausted(a, n) == a >= n

\* Mutant of CloseBrowser: the browser of the failed attempt is left open.
CloseBrowserLeaking(open, b) == open

\* The open browsers once browser.close() of b has completed.
CloseBrowser(open, b) == open \ {b}

\* The end of the catch block, after the close if there was one: browser = null,
\* then either `return null` or the next turn of the while loop.
AfterClose(a) ==
    /\ browser' = 0
    /\ IF Exhausted(a, maxRetries)
         THEN loginPc' = "returned" /\ session' = "none"
         ELSE loginPc' = "launch" /\ UNCHANGED session

\* The catch block up to its await: attempt++, and browser.close() is called
\* when a browser was launched in this attempt.
CatchAttempt(step) ==
    /\ attempt' = attempt + 1
    /\ failures' = Append(failures, step)
    /\ IF browser # 0
         THEN loginPc' = "closing" /\ UNCHANGED <<browser, session>>
         ELSE AfterClose(attempt + 1)

\* The head of the while loop.  With attempts left puppeteer.launch is called and
\* resolves or rejects; with none left the loop ends and the function returns
\* null.
LoginLaunch(ok) ==
    /\ loginPc = "launch"
    /\ IF attempt < maxRetries
         THEN /\ launches' = launches + 1
              /\ IF ok
                   THEN /\ browser' = FreshBrowser
                        /\ openBrowsers' = openBrowsers \cup {FreshBrowser}
                        /\ loginPc' = LoginSteps[1]
                        /\ UNCHANGED <<attempt, failures, session>>
                   ELSE /\ CatchAttempt("launch")
                        /\ UNCHANGED openBrowsers
         ELSE /\ loginPc' = "returned"
              /\ session' = "none"
              /\ UNCHANGED <<launches, browser, openBrowsers, attempt, failures>>
    /\ UNCHANGED <<maxRetries, mainPc, mainBrowser, monitorVars>>
    /\ UNCHANGED helperVars

\* One step of the try block completes: it succeeds and the attempt goes on (the
\* last one returns the session), or it throws and the catch block runs.
LoginStep(ok) ==
    /\ loginPc \in {LoginSteps[i] : i \in 1..Len(LoginSteps)}
    /\ IF ok
         THEN /\ IF StepAfter(loginPc) = "return"
                   THEN loginPc' = "returned" /\ session' = "session"
                   ELSE loginPc' = StepAfter(loginPc) /\ UNCHANGED session
              /\ UNCHANGED <<attempt, failures, browser>>
         ELSE CatchAttempt(loginPc)
    /\ UNCHANGED <<maxRetries, launches, openBrowsers, mainPc, mainBrowser, monitorVars>>
    /\ UNCHANGED helperVars

\* browser.close() of the catch block completes.
LoginClose ==
    /\ loginPc = "closing"
    /\ openBrowsers' = CloseBrowser(openBrowsers, browser)
    /\ AfterClose(attempt)
    /\ UNCHANGED <<maxRetries, attempt, launches, failures, mainPc, mainBrowser,
                   monitorVars>>
    /\ UNCHANGED helperVars

\* The program before main is called with loginToDashboard's maxRetries = n.
ProgramInit(n) ==
    /\ maxRetries = n
    /\ attempt = 0
    /\ browser = 0
    /\ loginPc = "launch"
    /\ launches = 0
    /\ openBrowsers = {}
    /\ session = "pending"
    /\ failures = <<>>
    /\ mainPc = "login"
    /\ mainBrowser = 0
    /\ processedCalls = {}
    /\ ticks = 0
    /\ now = 0
    /\ pollDue = 0
    /\ pipes = <<>>
    /\ files = {}
    /\ refresh = "off"
    /\ skipped = "never"

LoginInit(n) ==
    /\ ProgramInit(n)
    /\ arg = <<>>
    /\ tokens = <<>>
    /\ ret = <<>>

\* ------------------------------------------------------------- monitoring
\* What the dashboard can show in the third column and in the Play(did, uuid)
\* reference of a row.
CliNumbers == {"A"}
Uuids == {"u1", "u2"}

\* A table row: its number of td cells, the text of the third cell, the state of
\* its play button ("none": no button whose onclick has Play, "malformed": the
\* onclick does not match Play('<did>','<uuid>'), "ok": it matches) and the uuid.
GoodRows == {[cols |-> 3, cli |-> c, play |-> "ok", uuid |-> u] :
                c \in CliNumbers, u \in Uuids}
BadRows == {[cols |-> 2, cli |-> "A", play |-> "ok", uuid |-> "u1"],
            [cols |-> 3, cli |-> "A", play |-> "none", uuid |-> "u1"],
            [cols |-> 3, cli |-> "A", play |-> "malformed", uuid |-> "u1"]}

\* The rows of '#LiveCalls tr, #last-activity tbody.lastdata tr' in document
\* order: a call listed in both tables is two rows of the snapshot.  The
\* snapshots explored hold up to MaxRows rows: well-formed rows, in any order and
\* with repetitions, and at most one row that the loop passes over, at the end.
Snapshots ==
    LET good == UNION {[1..n -> GoodRows] : n \in 0..MaxRows}
        tail == {<<>>} \cup {<<r>> : r \in BadRows}
    IN  {x[1] \o x[2] : x \in {y \in good \X tail : Len(y[1]) + Len(y[2]) <= MaxRows}}

\* const callId = `${cliNumber}_${uuid}`
CallId(cli, uuid) == cli \o "_" \o uuid

\* !processedCalls.has(callId)
IsNewCall(seen, callId) == callId \notin seen

\* Mutant of RecordCall: the call id is not added to the set.
RecordCallForgotten(seen, callId) == seen

\* processedCalls.add(callId)
RecordCall(seen, callId) == seen \cup {callId}

\* The pipeline of a call at its launch: sendInstantNotification(callData) has run
\* up to its await, so the sendMessage request is out (alertAt is the time it was
\* made, and 0 once it is settled).
NewPipe(row) ==
    [key |-> CallId(row.cli, row.uuid), cli |-> row.cli, pc |-> "alert",
     msgId |-> 0, alertAt |-> now, armed |-> 0, due |-> 0, stamp |-> 0,
     hist |-> <<"alert">>]

\* Where the pipelines of a call id stand, for the record of a rejected row.
StateOf(ps, callId) ==
    LET mine == {i \in 1..Len(ps) : ps[i].key = callId}
    IN  IF \E i \in mine : ps[i].pc = "failed" THEN "failed"
        ELSE IF \E i \in mine : ps[i].pc = "cleaned" THEN "cleaned"
        ELSE "running"

\* Mutant of HandleRow: the pipeline is launched and the call id is left to be
\* recorded later.
HandleRowRecordingLater(st, row) ==
    IF row.cols > 2 /\ row.play = "ok"
    THEN IF IsNewCall(st.seen, CallId(row.cli, row.uuid))
         THEN [seen |-> st.seen,
               pipes |-> Append(st.pipes, NewPipe(row)),
               skipped |-> st.skipped]
         ELSE [st EXCEPT !.skipped = StateOf(st.pipes, CallId(row.cli, row.uuid))]
    ELSE st

\* The body of the .each callback for one row.
HandleRow(st, row) ==
    IF row.cols > 2 /\ row.play = "ok"
    THEN IF IsNewCall(st.seen, CallId(row.cli, row.uuid))
         THEN [seen |-> RecordCall(st.seen, CallId(row.cli, row.uuid)),
               pipes |-> Append(st.pipes, NewPipe(row)),
               skipped |-> st.skipped]
         ELSE [st EXCEPT !.skipped = StateOf(st.pipes, CallId(row.cli, row.uuid))]
    ELSE st

\* The .each loop over the rows of a snapshot, first row first.
RECURSIVE HandleRows(_, _)
HandleRows(st, snap) ==
    IF snap = <<>> THEN st
    ELSE HandleRows(HandleRow(st, Head(snap)), Tail(snap))

\* Mutant of HasSession: main goes on whatever loginToDashboard returned.
HasSessionUnchecked(s) == TRUE

\* if (!session) { ...; return; }
HasSession(s) == s # "none"

\* main after loginToDashboard returned: without a session it returns (the
\* finally block finds browser null); with one it creates processedCalls,
\* schedules the refresh and enters the loop, where page.content() is awaited.
MainAfterLogin ==
    /\ mainPc = "login"
    /\ loginPc = "returned"
    /\ IF HasSession(session)
         THEN /\ mainPc' = "content"
              /\ mainBrowser' = browser
              /\ refresh' = "armed"
              /\ loginPc' = "gone"
         ELSE /\ mainPc' = "exited"
              /\ UNCHANGED <<mainBrowser, refresh, loginPc>>
    \* loginToDashboard's frame is gone: its locals are dropped
    /\ attempt' = 0
    /\ launches' = 0
    /\ failures' = <<>>
    /\ processedCalls' = {}
    /\ UNCHANGED <<maxRetries, browser, openBrowsers, session>>
    /\ UNCHANGED <<ticks, now, pollDue, pipes, files, skipped>>
    /\ UNCHANGED helperVars

\* Mutant of PollTick: the iteration waits for the pipelines it finds in flight.
PollTickAwaiting(snap) ==
    /\ mainPc = "content"
    /\ ticks < MaxTicks
    /\ \A i \in 1..Len(pipes) : pipes[i].pc \in {"failed", "cleaned"}
    /\ LET st == HandleRows([seen |-> processedCalls, pipes |-> pipes,
                              skipped |-> skipped], snap)
       IN  /\ processedCalls' = st.seen
           /\ pipes' = st.pipes
           /\ skipped' = st.skipped
    /\ ticks' = ticks + 1
    /\ mainPc' = "pause"
    /\ pollDue' = now + POLL_PAUSE_MS
    /\ UNCHANGED <<loginVars, mainBrowser, now, files, refresh>>
    /\ UNCHANGED helperVars

\* page.content() resolves with a snapshot: every row is handled, the pipelines of
\* the new calls are launched, and the loop arms its 100 ms pause.
PollTick(snap) ==
    /\ mainPc = "content"
    /\ ticks < MaxTicks
    /\ LET st == HandleRows([seen |-> processedCalls, pipes |-> pipes,
                              skipped |-> skipped], snap)
       IN  /\ processedCalls' = st.seen
           /\ pipes' = st.pipes
           /\ skipped' = st.skipped
    /\ ticks' = ticks + 1
    /\ mainPc' = "pause"
    /\ pollDue' = now + POLL_PAUSE_MS
    /\ UNCHANGED <<loginVars, mainBrowser, now, files, refresh>>
    /\ UNCHANGED helperVars

\* Mutant of PollError: the error is not caught in the loop; it reaches the outer
\* catch of main and the loop is left.
PollErrorFatal ==
    /\ mainPc = "content"
    /\ ticks < MaxTicks
    /\ ticks' = ticks + 1
    /\ mainPc' = "exited"
    /\ pollDue' = 0
    /\ UNCHANGED <<loginVars, mainBrowser, processedCalls, skipped, now, pipes, files,
                   refresh>>
    /\ UNCHANGED helperVars

\* page.content() or cheerio.load throws: the catch block logs and arms the 15 s
\* backoff.
PollError ==
    /\ mainPc = "content"
    /\ ticks < MaxTicks
    /\ ticks' = ticks + 1
    /\ mainPc' = "backoff"
    /\ pollDue' = now + ERROR_BACKOFF_MS
    /\ UNCHANGED <<loginVars, mainBrowser, processedCalls, skipped, now, pipes, files,
                   refresh>>
    /\ UNCHANGED helperVars

\* The 15 s backoff elapses: the loop arms the 100 ms pause that ends every
\* iteration.
BackoffDone ==
    /\ mainPc = "backoff"
    /\ now >= pollDue
    /\ mainPc' = "pause"
    /\ pollDue' = now + POLL_PAUSE_MS
    /\ UNCHANGED <<loginVars, mainBrowser, processedCalls, skipped, ticks, now, pipes,
                   files, refresh>>
    /\ UNCHANGED helperVars

\* The 100 ms pause elapses: the next iteration calls page.content().
PauseDone ==
    /\ mainPc = "pause"
    /\ now >= pollDue
    /\ mainPc' = "content"
    /\ pollDue' = 0
    /\ UNCHANGED <<loginVars, mainBrowser, processedCalls, skipped, ticks, now, pipes,
                   files, refresh>>
    /\ UNCHANGED helperVars

\* The interval of setInterval elapses (REFRESH_INTERVAL_MINUTES is configuration):
\* the callback calls page.reload().  One reload is in flight at a time.
RefreshFire ==
    /\ refresh \in {"armed", "failed"}
    /\ refresh' = "reloading"
    /\ UNCHANGED <<loginVars, pollVars, now, pipes, files>>
    /\ UNCHANGED helperVars

\* Mutant of RefreshDone: the rejection of page.reload() is not caught in the
\* callback and the refresh task is lost.
RefreshDoneUncaught(ok) ==
    /\ refresh = "reloading"
    /\ refresh' = IF ok THEN "armed" ELSE "off"
    /\ UNCHANGED <<loginVars, pollVars, now, pipes, files>>
    /\ UNCHANGED helperVars

\* page.reload() resolves, or it rejects and the callback's catch block logs: the
\* interval stays scheduled either way.
RefreshDone(ok) ==
    /\ refresh = "reloading"
    /\ refresh' = IF ok THEN "armed" ELSE "failed"
    /\ UNCHANGED <<loginVars, pollVars, now, pipes, files>>
    /\ UNCHANGED helperVars

\* ------------------------------------------------------------------ clock
\* The deadlines of the armed timers.
Deadlines ==
    (IF mainPc \in {"pause", "backoff"} THEN {pollDue} ELSE {})
    \cup {pipes[i].due : i \in {j \in 1..Len(pipes) : pipes[j].pc = "timer"}}

Min(S) == CHOOSE x \in S : \A y \in S : x <= y

\* Time passes up to the next deadline: a timer fires when the clock reaches its
\* deadline.
Advance ==
    /\ mainPc \in {"content", "pause", "backoff"}
    /\ Deadlines # {}
    /\ \A d \in Deadlines : d > now
    /\ now' = Min(Deadlines)
    /\ UNCHANGED <<loginVars, pollVars, pipes, files, refresh>>
    /\ UNCHANGED helperVars

\* --------------------------------------------------------------- pipeline
\* const fileName = `call_${Date.now()}_${cliNumber}.wav`
WavName(stamp, cli) == "call_" \o ToString(stamp) \o "_" \o cli \o ".wav"

\* filePath.replace(".wav", ".mp3")
Mp3Name(stamp, cli) == "call_" \o ToString(stamp) \o "_" \o cli \o ".mp3"

Log(p, events) == [p EXCEPT !.hist = p.hist \o events]

\* What a segment of a pipeline leaves: the pipeline and the directory.
Step(p, fs) == [pipe |-> p, files |-> fs]

\* Mutant of Fail: the catch block also sweeps the temporary files out of the
\* directory.
FailSweeping(p, event, fs) == Step([Log(p, <<event>>) EXCEPT !.pc = "failed"], {})

\* The catch block of processCallWorker: the error is logged and the worker ends.
Fail(p, event, fs) == Step([Log(p, <<event>>) EXCEPT !.pc = "failed"], fs)

\* response.data.result.message_id of the alert of pipeline i: Telegram's message
\* ids are positive and differ from message to message.
MessageId(i) == i

\* Mutant of AfterAlert: setTimeout is called without its delay.
AfterAlertNoDelay(p, id) ==
    IF id # 0
    THEN [Log(p, <<"alertOk", "timer">>) EXCEPT
            !.pc = "timer", !.msgId = id, !.alertAt = 0, !.armed = now, !.due = now]
    ELSE [Log(p, <<"alertErr">>) EXCEPT !.pc = "failed", !.alertAt = 0]

\* Mutant of AfterAlert: the timer is armed without looking at the message id.
AfterAlertUnchecked(p, id) ==
    [Log(p, <<IF id # 0 THEN "alertOk" ELSE "alertErr", "timer">>) EXCEPT
        !.pc = "timer", !.msgId = id, !.alertAt = 0, !.armed = now,
        !.due = now + AUDIO_DELAY_MS]

\* The .then callback of main for the value sendInstantNotification resolved
\* with: a truthy message id arms the 20 s timer, null ends the pipeline.
AfterAlert(p, id) ==
    IF id # 0
    THEN [Log(p, <<"alertOk", "timer">>) EXCEPT
            !.pc = "timer", !.msgId = id, !.alertAt = 0, !.armed = now,
            !.due = now + AUDIO_DELAY_MS]
    ELSE [Log(p, <<"alertErr">>) EXCEPT !.pc = "failed", !.alertAt = 0]

\* processCallWorker up to its first await: the file is named after Date.now() and
\* the cliNumber, and the audio is requested.  The timer is spent.
StartWorker(p) ==
    [Log(p, <<"fetch">>) EXCEPT !.pc = "fetch", !.stamp = now, !.due = 0]

\* Mutant of AfterFetch: a rejected request is made again.
AfterFetchRetrying(p, ok, fs) ==
    IF ok
    THEN Step([Log(p, <<"fetchOk", "convert">>) EXCEPT !.pc = "convert"],
              fs \cup {WavName(p.stamp, p.cli)})
    ELSE Step(Log(p, <<"fetchErr", "fetch">>), fs)

\* After `await axios.get(audioUrl, ...)`: the WAV file is written and ffmpeg is
\* started; a rejected request goes to the catch block.
AfterFetch(p, ok, fs) ==
    IF ok
    THEN Step([Log(p, <<"fetchOk", "convert">>) EXCEPT !.pc = "convert"],
              fs \cup {WavName(p.stamp, p.cli)})
    ELSE Fail(p, "fetchErr", fs)

\* Mutant of AfterConvert: the "error" handler resolves the promise instead of
\* rejecting it, so the worker goes on to send.
AfterConvertResolving(p, ok, fs) ==
    IF ok
    THEN Step([Log(p, <<"convertOk", "send">>) EXCEPT !.pc = "send"],
              fs \cup {Mp3Name(p.stamp, p.cli)})
    ELSE Step([Log(p, <<"convertErr", "send">>) EXCEPT !.pc = "send"], fs)

\* Mutant of AfterConvert: the "error" handler does not reject the promise, which
\* then never settles.
AfterConvertHanging(p, ok, fs) ==
    IF ok
    THEN Step([Log(p, <<"convertOk", "send">>) EXCEPT !.pc = "send"],
              fs \cup {Mp3Name(p.stamp, p.cli)})
    ELSE Step([Log(p, <<"convertErr">>) EXCEPT !.pc = "hung"], fs)

\* After the ffmpeg promise: on "end" the MP3 file is there and
\* sendAudioToTelegramGroup posts it; on "error" the promise rejects and the catch
\* block runs.
AfterConvert(p, ok, fs) ==
    IF ok
    THEN Step([Log(p, <<"convertOk", "send">>) EXCEPT !.pc = "send"],
              fs \cup {Mp3Name(p.stamp, p.cli)})
    ELSE Fail(p, "convertErr", fs)

\* fs.unlinkSync(filePath); fs.unlinkSync(filePathMp3): unlinkSync throws on a
\* file that is not there, and the catch block then ends the worker.
Unlink(p, fs) ==
    LET wav == WavName(p.stamp, p.cli)
        mp3 == Mp3Name(p.stamp, p.cli)
    IN  IF wav \notin fs THEN Fail(p, "unlinkErr", fs)
        ELSE IF mp3 \notin fs THEN Fail(Log(p, <<"unlinkWav">>), "unlinkErr", fs \ {wav})
        ELSE Step([Log(p, <<"unlinkWav", "unlinkMp3">>) EXCEPT !.pc = "cleaned"],
                  fs \ {wav, mp3})

\* After `await sendAudioToTelegramGroup(...)`, which returns true or false and
\* never throws, and whose result processCallWorker does not read: with a
\* notificationMessageId deleteTelegramMessage is called, without one the files
\* are unlinked at once.
AfterSend(p, sent, fs) ==
    LET q == Log(p, <<IF sent THEN "sendOk" ELSE "sendErr">>)
    IN  IF q.msgId # 0
        THEN Step([Log(q, <<"delete">>) EXCEPT !.pc = "delete"], fs)
        ELSE Unlink(q, fs)

\* After `await deleteTelegramMessage(...)`, which returns true or false and
\* never throws: the two temporary files are unlinked.
AfterDelete(p, deleted, fs) ==
    Unlink(Log(p, <<IF deleted THEN "deleteOk" ELSE "deleteErr">>), fs)

Apply(i, r) ==
    /\ pipes' = [pipes EXCEPT ![i] = r.pipe]
    /\ files' = r.files

\* The sendMessage request of sendInstantNotification resolves (the function
\* returns the message id) or rejects (it returns null).
AlertDone(i, ok) ==
    /\ pipes[i].pc = "alert"
    /\ Apply(i, Step(AfterAlert(pipes[i], IF ok THEN MessageId(i) ELSE 0), files))
    /\ UNCHANGED <<loginVars, pollVars, now, refresh>>
    /\ UNCHANGED helperVars

\* The 20 s timer fires and processCallWorker starts.
TimerFire(i) ==
    /\ pipes[i].pc = "timer"
    /\ now >= pipes[i].due
    /\ Apply(i, Step(StartWorker(pipes[i]), files))
    /\ UNCHANGED <<loginVars, pollVars, now, refresh>>
    /\ UNCHANGED helperVars

\* The audio request resolves or rejects.
FetchDone(i, ok) ==
    /\ pipes[i].pc = "fetch"
    /\ Apply(i, AfterFetch(pipes[i], ok, files))
    /\ UNCHANGED <<loginVars, pollVars, now, refresh>>
    /\ UNCHANGED helperVars

\* ffmpeg ends or errors.
ConvertDone(i, ok) ==
    /\ pipes[i].pc = "convert"
    /\ Apply(i, AfterConvert(pipes[i], ok, files))
    /\ UNCHANGED <<loginVars, pollVars, now, refresh>>
    /\ UNCHANGED helperVars

\* The sendAudio request resolves or rejects.
SendDone(i, ok) ==
    /\ pipes[i].pc = "send"
    /\ Apply(i, AfterSend(pipes[i], ok, files))
    /\ UNCHANGED <<loginVars, pollVars, now, refresh>>
    /\ UNCHANGED helperVars

\* The deleteMessage request resolves or rejects.
DeleteDone(i, ok) ==
    /\ pipes[i].pc = "delete"
    /\ Apply(i, AfterDelete(pipes[i], ok, files))
    /\ UNCHANGED <<loginVars, pollVars, now, refresh>>
    /\ UNCHANGED helperVars

\* ---------------------------------------------------------- specification
\* main: loginToDashboard({ headless: false, maxRetries: 2 }), then the loop.
Init == LoginInit(MAIN_MAX_RETRIES)

Next ==
    \/ \E ok \in BOOLEAN : LoginLaunch(ok)
    \/ \E ok \in BOOLEAN : LoginStep(ok)
    \/ LoginClose
    \/ MainAfterLogin
    \/ \E snap \in Snapshots : PollTick(snap)
    \/ PollError
    \/ BackoffDone
    \/ PauseDone
    \/ Advance
    \/ \E i \in 1..Len(pipes), ok \in BOOLEAN : AlertDone(i, ok)
    \/ \E i \in 1..Len(pipes) : TimerFire(i)
    \/ \E i \in 1..Len(pipes), ok \in BOOLEAN : FetchDone(i, ok)
    \/ \E i \in 1..Len(pipes), ok \in BOOLEAN : ConvertDone(i, ok)
    \/ \E i \in 1..Len(pipes), ok \in BOOLEAN : SendDone(i, ok)
    \/ \E i \in 1..Len(pipes), ok \in BOOLEAN : DeleteDone(i, ok)

Spec == Init /\ [][Next]_vars

\* The next segment of pipeline i: the call it waits for resolves or rejects, or
\* its timer fires.
PipeStep(i) ==
    /\ i \in 1..Len(pipes)
    /\ \/ \E ok \in BOOLEAN : AlertDone(i, ok)
       \/ TimerFire(i)
       \/ \E ok \in BOOLEAN : FetchDone(i, ok)
       \/ \E ok \in BOOLEAN : ConvertDone(i, ok)
       \/ \E ok \in BOOLEAN : SendDone(i, ok)
       \/ \E ok \in BOOLEAN : DeleteDone(i, ok)

\* processedCalls admits one pipeline per call id.
MaxPipes == Cardinality(CliNumbers) * Cardinality(Uuids)

\* The monitoring loop and the keep-alive task, from the start of the monitoring:
\* main after a login that returned a session (browser 1), at its first
\* page.content().  The alert requests of the launched pipelines stay out.
MonitoringInit ==
    /\ maxRetries = MAIN_MAX_RETRIES
    /\ attempt = 0
    /\ browser = 1
    /\ loginPc = "gone"
    /\ launches = 0
    /\ openBrowsers = {1}
    /\ session = "session"
    /\ failures = <<>>
    /\ mainPc = "content"
    /\ mainBrowser = 1
    /\ processedCalls = {}
    /\ ticks = 0
    /\ now = 0
    /\ pollDue = 0
    /\ pipes = <<>>
    /\ files = {}
    /\ refresh = "armed"
    /\ skipped = "never"
    /\ arg = <<>>
    /\ tokens = <<>>
    /\ ret = <<>>

LoopNext ==
    \/ \E snap \in Snapshots : PollTick(snap)
    \/ PollError
    \/ BackoffDone
    \/ PauseDone
    \/ Advance
    \/ RefreshFire
    \/ \E ok \in BOOLEAN : RefreshDone(ok)

\* The timers of the loop and the interval fire, and page.reload() resolves or
\* rejects in the end.
LoopFairness ==
    /\ WF_vars(Advance)
    /\ WF_vars(BackoffDone \/ PauseDone)
    /\ WF_vars(RefreshFire)
    /\ WF_vars(\E ok \in BOOLEAN : RefreshDone(ok))

LoopSpec == MonitoringInit /\ [][LoopNext]_vars /\ LoopFairness

\* The strings of up to n characters of the set chars.
Strings(chars, n) == UNION {[1..k -> chars] : k \in 0..n}

\* maskNumber alone, called with every trimmed string of up to MaxDigits digits
\* and spaces: callData.number is the trimmed text of the second cell.
MaskInit ==
    /\ ProgramInit(MAIN_MAX_RETRIES)
    /\ arg \in {str \in Strings({"1", "9", " "}, MaxDigits) : Trim(str) = str}
    /\ tokens = <<>>
    /\ ret = <<"pending">>

MaskSpec == MaskInit /\ [][CallMaskNumber]_vars

\* The words of the first cell: the empty word (two spaces in a row), names,
\* MOBILE and fixed, and words with a digit.
Words == {<<>>, <<"U", "S">>, <<"F", "I", "X">>, MOBILE, <<"f", "i", "x", "e", "d">>,
          <<"7">>, <<"U", "K", "2">>}

\* extractCountryFromTermination alone, called with the texts of up to MaxTokens
\* words: callData.country is made from the trimmed text of the first cell, which
\* is empty or starts and ends with a word that is not empty.
CountryInit ==
    /\ ProgramInit(MAIN_MAX_RETRIES)
    /\ tokens \in {ws \in UNION {[1..k -> Words] : k \in 1..MaxTokens} :
                      ws = <<<<>>>> \/ (ws[1] # <<>> /\ ws[Len(ws)] # <<>>)}
    /\ arg = Join(tokens)
    /\ ret = <<"pending">>

CountrySpec == CountryInit /\ [][CallExtractCountry]_vars

\* The scheduling of Node and of the services: a timer whose deadline is reached
\* fires, the clock goes on, and every request that is out (alert, audio, ffmpeg,
\* sendAudio, deleteMessage) resolves or rejects in the end.
PipeFairness ==
    /\ WF_vars(Advance)
    /\ WF_vars(PauseDone)
    /\ \A i \in 1..MaxPipes : WF_vars(PipeStep(i))

\* The pipelines and the loop that launches them, from the start of the
\* monitoring, in the runs whose iterations do not throw.
PipeNext ==
    \/ \E snap \in Snapshots : PollTick(snap)
    \/ PauseDone
    \/ Advance
    \/ \E i \in 1..MaxPipes : PipeStep(i)

PipeSpec == MonitoringInit /\ [][PipeNext]_vars /\ PipeFairness

\* loginToDashboard alone, called with every maxRetries of 0..MaxRetriesArg.
LoginNext ==
    \/ \E ok \in BOOLEAN : LoginLaunch(ok)
    \/ \E ok \in BOOLEAN : LoginStep(ok)
    \/ LoginClose

InitLogin == \E n \in 0..MaxRetriesArg : LoginInit(n)

LoginSpec == InitLogin /\ [][LoginNext]_vars

\* ================================================================= claims
PipeIds == 1..Len(pipes)

\* The event e is in the history of pipeline p.
Has(p, e) == \E k \in 1..Len(p.hist) : p.hist[k] = e

\* How often the event e is in the history of pipeline p.
Count(p, e) == Cardinality({k \in 1..Len(p.hist) : p.hist[k] = e})

\* C1: for every call id, over all poll ticks and snapshots, at most one pipeline
\* is launched, and the alert send of that pipeline is started once.
C1_OnePipelinePerKey ==
    \A i \in PipeIds :
        /\ Count(pipes[i], "alert") = 1
        /\ \A j \in PipeIds : pipes[i].key = pipes[j].key => i = j

\* A second tick has run and the dedup check has rejected a row of a call that
\* has its pipeline.
C1_Witness == ticks >= 2 /\ skipped # "never" /\ Len(pipes) >= 1

\* C2: a pipeline whose alert send failed is over: no timer is armed and no fetch,
\* conversion, audio send or deleteMessage call is ever made for it.
C2_AlertFailureEndsPipeline ==
    \A i \in PipeIds :
        Has(pipes[i], "alertErr") =>
            /\ pipes[i].pc = "failed"
            /\ pipes[i].hist = <<"alert", "alertErr">>
            /\ pipes[i].due = 0
            /\ pipes[i].msgId = 0

\* An alert send has failed and the clock is past the time a timer armed at the
\* launch would have fired.
C2_Witness ==
    \E i \in PipeIds : Has(pipes[i], "alertErr") /\ now >= AUDIO_DELAY_MS

\* C3: a pipeline whose conversion failed is over: it made no sendAudio call and no
\* deleteMessage call, and it is neither sending, deleting nor cleaned.
C3_ConvertFailureStops ==
    \A i \in PipeIds :
        Has(pipes[i], "convertErr") =>
            /\ pipes[i].pc = "failed"
            /\ ~Has(pipes[i], "send")
            /\ ~Has(pipes[i], "delete")
            /\ pipes[i].hist[Len(pipes[i].hist)] = "convertErr"

\* A conversion has failed after a successful alert and fetch.
C3_Witness ==
    \E i \in PipeIds :
        /\ Has(pipes[i], "convertErr")
        /\ Has(pipes[i], "alertOk")
        /\ Has(pipes[i], "fetchOk")

\* C4: a pipeline whose audio send failed goes to FAILED without cleanup: it makes
\* no deleteMessage call for its alert and never reaches CLEANED.
C4_SendFailureSkipsCleanup ==
    \A i \in PipeIds :
        Has(pipes[i], "sendErr") =>
            /\ ~Has(pipes[i], "delete")
            /\ pipes[i].pc = "failed"

\* The events a pipeline can log as its k-th, in the order of the phases: the
\* alert, the timer, the fetch, the conversion, the audio send, the deletion of
\* the alert, the deletion of the two files.
PhaseOrder ==
    << {"alert"}, {"alertOk", "alertErr"}, {"timer"},
       {"fetch"}, {"fetchOk", "fetchErr"},
       {"convert"}, {"convertOk", "convertErr"},
       {"send"}, {"sendOk", "sendErr"},
       {"delete"}, {"deleteOk", "deleteErr"},
       {"unlinkWav", "unlinkErr"}, {"unlinkMp3", "unlinkErr"} >>

\* C5: the phases of every pipeline occur in the fixed order alert, 20 s delay,
\* fetch, conversion, audio send, alert deletion, file deletion, none skipped; the
\* fetch starts only after the alert succeeded and 20 s have passed since, and the
\* alert is deleted only after the audio send was attempted.
C5_PhasesInOrder ==
    \A i \in PipeIds :
        /\ Len(pipes[i].hist) <= Len(PhaseOrder)
        /\ \A k \in 1..Len(pipes[i].hist) : pipes[i].hist[k] \in PhaseOrder[k]
        /\ Has(pipes[i], "fetch") =>
              /\ Has(pipes[i], "alertOk")
              /\ pipes[i].stamp >= pipes[i].armed + AUDIO_DELAY_MS
        /\ Has(pipes[i], "delete") =>
              Has(pipes[i], "sendOk") \/ Has(pipes[i], "sendErr")

\* A pipeline has gone through every phase, its worker started 20 s after an alert
\* that was not sent at launch time.
C5_Witness ==
    \E i \in PipeIds :
        /\ pipes[i].pc = "cleaned"
        /\ pipes[i].armed > 0
        /\ pipes[i].stamp = pipes[i].armed + AUDIO_DELAY_MS

\* C6: a pipeline whose deleteMessage failed after the audio was sent still
\* deletes its two temporary files and finishes.
C6_DeleteFailureStillCleans ==
    \A i \in PipeIds :
        (Has(pipes[i], "sendOk") /\ Has(pipes[i], "deleteErr")) =>
            /\ pipes[i].pc = "cleaned"
            /\ Has(pipes[i], "unlinkWav")
            /\ Has(pipes[i], "unlinkMp3")

\* The call events of a pipeline, one per attempt of a phase.
CallEvents == {"alert", "fetch", "convert", "send", "delete"}

\* The events that end a pipeline in FAILED.
ErrorEnds == {"alertErr", "fetchErr", "convertErr", "unlinkErr"}

\* C7: no phase of a pipeline is attempted twice, the key of every launched call
\* stays in processedCalls, and a failed pipeline logs nothing after its failure
\* and is the only pipeline its call ever gets.
C7_NoRetry ==
    \A i \in PipeIds :
        /\ \A e \in CallEvents : Count(pipes[i], e) <= 1
        /\ pipes[i].key \in processedCalls
        /\ pipes[i].pc = "failed" =>
              /\ pipes[i].hist[Len(pipes[i].hist)] \in ErrorEnds
              /\ \A k \in 1..(Len(pipes[i].hist) - 1) : pipes[i].hist[k] \notin ErrorEnds
              /\ \A j \in PipeIds : pipes[j].key = pipes[i].key => j = i

\* A later snapshot has shown the row of a call whose pipeline had failed, and the
\* dedup check has rejected it.
C7_Witness ==
    /\ skipped = "failed"
    /\ ticks >= 2
    /\ \E i \in PipeIds : pipes[i].pc = "failed" /\ Has(pipes[i], "fetchErr")

\* Every attempt launched so far has failed at the detection of the login fields.
NeverDetected ==
    /\ failures # <<>>
    /\ Len(failures) = launches
    /\ \A k \in 1..Len(failures) : failures[k] = "detect"

\* C8: when the login fields are never detected, loginToDashboard with maxRetries
\* = N >= 1 goes on until it has made N attempts (N launches), then returns no
\* session, with no browser open.
C8_ExactlyMaxRetriesAttempts ==
    NeverDetected =>
        /\ launches <= maxRetries
        /\ IF launches = maxRetries
             THEN /\ loginPc \in {"closing", "returned"}
                  /\ loginPc = "closing" => session = "pending"
                  /\ loginPc = "returned" =>
                        /\ session = "none"
                        /\ openBrowsers = {}
                        /\ browser = 0
                        /\ attempt = maxRetries
             ELSE /\ loginPc \in {"closing", "launch"}
                  /\ session = "pending"

\* loginToDashboard has returned after maxRetries = 3 attempts that all failed at
\* the detection of the fields.
C8_Witness ==
    /\ NeverDetected
    /\ loginPc = "returned"
    /\ maxRetries = 3
    /\ launches = 3

\* C9: at most one browser is open at any point of loginToDashboard; the browser
\* of a failed attempt is closed before the next launch; on return a browser is
\* open exactly when a session is returned.
C9_NoLeakedBrowser ==
    /\ Cardinality(openBrowsers) <= 1
    /\ loginPc = "launch" => openBrowsers = {} /\ browser = 0
    /\ loginPc = "closing" => openBrowsers = {browser}
    /\ loginPc = "returned" =>
          /\ session \in {"none", "session"}
          /\ session = "none" => openBrowsers = {} /\ browser = 0
          /\ session = "session" => openBrowsers = {browser} /\ browser # 0

\* Two attempts have failed, at the navigation to the monitoring view and at the
\* verification, and the third attempt has its browser, the only one open.
C9_Witness ==
    /\ failures = <<"liveCalls", "verify">>
    /\ loginPc = "navigate"
    /\ openBrowsers = {browser}

\* C10: when loginToDashboard returned no session, monitoring never starts: no
\* snapshot is taken, no refresh is scheduled, no key is recorded, no pipeline is
\* launched.
C10_NoSessionNoMonitoring ==
    session = "none" =>
        /\ mainPc \in {"login", "exited"}
        /\ ticks = 0
        /\ refresh = "off"
        /\ processedCalls = {}
        /\ skipped = "never"
        /\ pipes = <<>>
        /\ files = {}
        /\ now = 0

\* main has returned after a login that gave no session.
C10_Witness == session = "none" /\ mainPc = "exited" /\ openBrowsers = {}

\* The pipelines launched by the step.
Launched == (Len(pipes) + 1)..Len(pipes')

\* The pipeline has not ended.
InFlight(p) == p.pc \notin {"failed", "cleaned"}

\* C11: the key of a call is in processedCalls from the segment that starts its
\* alert send on, so a tick that runs while the pipeline of the call is in flight
\* (alert, delay, fetch, conversion, send) launches no pipeline for that key, and
\* the rows of one snapshot launch one pipeline per key.
C11_RecordedBeforeLaunch ==
    /\ [](\A i \in PipeIds : pipes[i].key \in processedCalls)
    /\ [][/\ Len(pipes') >= Len(pipes)
          /\ \A j \in Launched :
                /\ pipes'[j].key \in processedCalls'
                /\ pipes'[j].key \notin processedCalls
                /\ pipes'[j].hist = <<"alert">>
                /\ \A i \in PipeIds :
                      InFlight(pipes[i]) => pipes'[j].key # pipes[i].key
                /\ \A k \in Launched : pipes'[k].key = pipes'[j].key => k = j]_vars

\* A later tick has shown the row of a call whose pipeline was in flight and the
\* dedup check has rejected the row; a pipeline is at its conversion.
C11_Witness ==
    /\ skipped = "running"
    /\ ticks >= 2
    /\ \E i \in PipeIds : pipes[i].pc = "convert"

\* Where main stands while the monitoring loop runs.
Monitoring == {"content", "pause", "backoff"}

\* C12: an error of a poll iteration does not end the loop: the iteration goes to
\* the backoff of 15 s, the backoff is waited for in full, then the 100 ms pause,
\* and then page.content() is called again; once the loop runs, main never leaves
\* it and its browser stays open.
C12_LoopSurvivesErrors ==
    /\ [][(mainPc \in Monitoring) =>
              (mainPc' \in Monitoring /\ mainBrowser' \in openBrowsers')]_vars
    /\ [][(mainPc = "content" /\ mainPc' = "backoff") =>
              pollDue' = now + ERROR_BACKOFF_MS]_vars
    /\ [][(mainPc = "backoff" /\ mainPc' # "backoff") =>
              (mainPc' = "pause" /\ now >= pollDue)]_vars
    /\ (mainPc = "backoff") ~> (mainPc = "content")

\* The first iteration threw, the backoff and the pause went by, and a second
\* iteration has run, at 15100 ms.
C12_Witness ==
    /\ pipes = <<>>
    /\ ticks = 2
    /\ mainPc = "pause"
    /\ now = ERROR_BACKOFF_MS + POLL_PAUSE_MS
    /\ pollDue = now + POLL_PAUSE_MS

\* C15: the keep-alive task runs beside the loop and never stops it: a reload that
\* throws leaves the interval scheduled and a later reload starts; the refresh
\* task changes nothing of the loop; an iteration that fails while a reload is in
\* flight goes to the backoff, page.content() is called again after it, and the
\* loop is never left.
C15_RefreshBesidePolling ==
    /\ [][(refresh # "off") => (refresh' # "off")]_vars
    /\ [][(refresh' # refresh) => UNCHANGED <<pollVars, now, pipes, files>>]_vars
    /\ [][(mainPc \in Monitoring) => (mainPc' \in Monitoring)]_vars
    /\ [][(refresh = "reloading" /\ mainPc = "content" /\ mainPc' # "content") =>
              (mainPc' \in {"pause", "backoff"} /\ refresh' = "reloading")]_vars
    /\ (refresh = "failed") ~> (refresh = "reloading")
    /\ (refresh = "reloading" /\ mainPc = "backoff") ~> (mainPc = "content")

\* A reload has thrown, the first iteration has failed, and after the backoff the
\* loop has run its second iteration.
C15_Witness ==
    /\ refresh = "failed"
    /\ ticks = 2
    /\ mainPc = "pause"
    /\ now = ERROR_BACKOFF_MS + POLL_PAUSE_MS

\* The events of the failure of a phase.
ErrorEvents == {"alertErr", "fetchErr", "convertErr", "sendErr", "deleteErr", "unlinkErr"}

\* The step is a segment of pipeline i in which a phase of it fails.
FailureStep(i) ==
    /\ Len(pipes') = Len(pipes)
    /\ \E k \in (Len(pipes[i].hist) + 1)..Len(pipes'[i].hist) :
          pipes'[i].hist[k] \in ErrorEvents

\* The directory as the segment pipeline p waits for leaves it when the call of
\* the segment succeeds.
FilesIfOk(p) ==
    CASE p.pc = "fetch" -> AfterFetch(p, TRUE, files).files
      [] p.pc = "convert" -> AfterConvert(p, TRUE, files).files
      [] p.pc = "send" -> AfterSend(p, TRUE, files).files
      [] p.pc = "delete" -> AfterDelete(p, TRUE, files).files
      [] OTHER -> files

\* C13: the failure of a phase of one pipeline stays in that pipeline: the segment
\* in which it fails leaves the loop, the clock and every other pipeline as they
\* are and removes no file that the same segment leaves when the phase succeeds;
\* and whatever has failed elsewhere, the loop goes on and a pipeline in flight has
\* its next segment to run (at once, or when its timer is due).
C13_FailuresIsolated ==
    /\ [][\A i \in PipeIds :
            FailureStep(i) =>
                /\ UNCHANGED <<pollVars, now, refresh>>
                /\ \A j \in PipeIds \ {i} : pipes'[j] = pipes[j]
                /\ (files \cap FilesIfOk(pipes[i])) \subseteq files']_vars
    /\ [](\A i \in PipeIds :
            (InFlight(pipes[i]) /\ (pipes[i].pc = "timer" => now >= pipes[i].due)) =>
                ENABLED PipeStep(i))
    /\ []((\E i \in PipeIds : pipes[i].pc = "failed") => mainPc \in Monitoring)

\* A pipeline has failed at its fetch, and a pipeline whose worker started later
\* has run all of its phases.
C13_Witness ==
    \E i, j \in PipeIds :
        /\ pipes[i].pc = "failed"
        /\ Has(pipes[i], "fetchErr")
        /\ pipes[j].pc = "cleaned"
        /\ pipes[j].stamp > pipes[i].stamp

\* C14: the loop waits for no pipeline: whatever the pipelines in flight are at,
\* page.content() can resolve and its rows be handled, and the pause can end when
\* it is due; the iteration that launches a pipeline only sends its alert and goes
\* on to its own pause, leaving the clock and every earlier pipeline as they are.
C14_PipelinesDetached ==
    /\ []((mainPc = "content" /\ ticks < MaxTicks) =>
              ENABLED (\E snap \in Snapshots : PollTick(snap)))
    /\ []((mainPc = "pause" /\ now >= pollDue) => ENABLED PauseDone)
    /\ [][(ticks' # ticks) =>
              /\ mainPc' \in {"pause", "backoff"}
              /\ UNCHANGED <<now, files>>
              /\ \A i \in PipeIds : pipes'[i] = pipes[i]
              /\ \A j \in Launched :
                    /\ pipes'[j].pc = "alert"
                    /\ pipes'[j].alertAt = now]_vars

\* The second pipeline was launched, and its alert request made, after the alert
\* of the first was confirmed and while the first is in its 20 s delay.
C14_Witness ==
    /\ Len(pipes) = 2
    /\ pipes[1].pc = "timer"
    /\ pipes[2].pc = "alert"
    /\ pipes[2].alertAt > pipes[1].armed
    /\ pipes[2].alertAt < pipes[1].due

\* The words that stop the extraction: MOBILE, fixed, and the words with a digit.
StopWords == {MOBILE, <<"f", "i", "x", "e", "d">>, <<"7">>, <<"U", "K", "2">>}

\* The place of the first stopping word of the argument, 0 when it has none.
FirstStop ==
    IF \E k \in 1..Len(tokens) : tokens[k] \in StopWords
    THEN CHOOSE k \in 1..Len(tokens) :
             tokens[k] \in StopWords /\ \A h \in 1..(k - 1) : tokens[h] \notin StopWords
    ELSE 0

\* C16 as stated: the result is the words before the first stopping word, joined
\* by single spaces, and the whole text only when there is no stopping word.
C16_LeadingTokens ==
    (ret # <<"pending">>) =>
        ret = IF FirstStop = 0 THEN arg ELSE Join(SubSeq(tokens, 1, FirstStop - 1))

\* C16 amended: the result is the words before the first stopping word, joined by
\* single spaces; it is the whole text when there is no stopping word and also
\* when the first word is a stopping word.
C16_LeadingTokensOrText ==
    (ret # <<"pending">>) =>
        ret = IF FirstStop \in {0, 1} THEN arg
              ELSE Join(SubSeq(tokens, 1, FirstStop - 1))

\* US FIX MOBILE has returned US FIX.
C16_Witness ==
    /\ tokens = << <<"U", "S">>, <<"F", "I", "X">>, MOBILE >>
    /\ ret = <<"U", "S", " ", "F", "I", "X">>

\* C17: maskNumber of a string of more than 7 digits is its first 3 characters,
\* three stars and its last 4 characters; of a string of up to 7 digits it is the
\* string.
C17_MaskNumber ==
    (ret # <<"pending">> /\ \A k \in 1..Len(arg) : arg[k] \in Digits) =>
        IF Len(arg) > 7
        THEN /\ Len(ret) = 10
             /\ \A k \in 1..3 : ret[k] = arg[k]
             /\ \A k \in 4..6 : ret[k] = "*"
             /\ \A k \in 1..4 : ret[6 + k] = arg[Len(arg) - 4 + k]
        ELSE ret = arg

\* maskNumber has returned for a number of 9 digits.
C17_Witness ==
    /\ arg = <<"1", "9", "9", "1", "1", "9", "1", "1", "9">>
    /\ ret = <<"1", "9", "9", "*", "*", "*", "9", "1", "1", "9">>

\* C18: a pipeline whose conversion failed after its fetch is FAILED and its
\* fetched source file is still in the directory.
C18_SourceFileLeftBehind ==
    \A i \in PipeIds :
        (Has(pipes[i], "fetchOk") /\ Has(pipes[i], "convertErr")) =>
            /\ pipes[i].pc = "failed"
            /\ WavName(pipes[i].stamp, pipes[i].cli) \in files

\* The workers of pipelines i and j have started and neither pipeline has ended.
BothAtWork(i, j) ==
    /\ i # j
    /\ InFlight(pipes[i]) /\ Has(pipes[i], "fetch")
    /\ InFlight(pipes[j]) /\ Has(pipes[j], "fetch")

\* C19: two pipelines whose workers are at work at the same time have different
\* source files and different converted files.
C19_DistinctTempFiles ==
    \A i, j \in PipeIds :
        BothAtWork(i, j) =>
            /\ WavName(pipes[i].stamp, pipes[i].cli) # WavName(pipes[j].stamp, pipes[j].cli)
            /\ Mp3Name(pipes[i].stamp, pipes[i].cli) # Mp3Name(pipes[j].stamp, pipes[j].cli)

\* C20: with timers that fire and calls that resolve or reject, every launched
\* pipeline comes to CLEANED or FAILED; until then it is never dropped or reset (its
\* history only grows), and once ended it stays as it is.
C20_PipelinesTerminate ==
    /\ \A i \in 1..MaxPipes :
          (i \in PipeIds /\ InFlight(pipes[i])) ~> (i \in PipeIds /\ ~InFlight(pipes[i]))
    /\ [][\A i \in PipeIds :
            /\ Len(pipes') >= Len(pipes)
            /\ pipes'[i].key = pipes[i].key
            /\ Len(pipes'[i].hist) >= Len(pipes[i].hist)
            /\ SubSeq(pipes'[i].hist, 1, Len(pipes[i].hist)) = pipes[i].hist
            /\ ~InFlight(pipes[i]) => pipes'[i] = pipes[i]]_vars

\* Two pipelines have ended, one cleaned after its 20 s delay and one failed after
\* its alert was sent.
C20_Witness ==
    \E i, j \in PipeIds :
        /\ pipes[i].pc = "cleaned"
        /\ pipes[j].pc = "failed"
        /\ Has(pipes[j], "alertOk")

====
